---- MODULE Spec2Model ----
\* Model of app/routes.py: the Flask handlers index, search_ticker and analyze,
\* the reference catalog they read (TICKERS / TICKER_DICT) and the external
\* analysis call create_combined_analysis.
\*
\* Text is modelled as a sequence of one-character strings, so that split,
\* upper, startswith, "in", int() and strptime() are computed character by
\* character.  Fixed messages of the code are TLA+ strings.
EXTENDS Integers, Sequences, FiniteSets, TLC

VARIABLES TICKERS, request, response, call, log

vars == <<TICKERS, request, response, call, log>>

----------------------------------------------------------------------------
\* Bounds of the model.

\* Longest catalog loaded at start in the full specification.
MaxCatalog == 2
\* Longest catalog loaded at start in the search specification.
MaxSearchCatalog == 6

----------------------------------------------------------------------------
\* Program constants.

MaxResults == 5
LookbackDefault == 365
LookbackMin == 30
LookbackMax == 1825
CrossoverDefault == 180
CrossoverMin == 30
CrossoverMax == 365
StatusError == 500

----------------------------------------------------------------------------
\* Characters and Python string primitives.

Min(a, b) == IF a < b THEN a ELSE b

Digits == {"0", "1", "2", "3", "4", "5", "6", "7", "8", "9"}

DigitVal(c) ==
  CASE c = "0" -> 0 [] c = "1" -> 1 [] c = "2" -> 2 [] c = "3" -> 3
    [] c = "4" -> 4 [] c = "5" -> 5 [] c = "6" -> 6 [] c = "7" -> 7
    [] c = "8" -> 8 [] c = "9" -> 9

\* Code point of a character (Python compares strings by code point).
Ord(c) ==
  CASE c = " " -> 32 [] c = "+" -> 43 [] c = "-" -> 45
    [] c \in Digits -> 48 + DigitVal(c)
    [] c = "A" -> 65 [] c = "B" -> 66 [] c = "C" -> 67 [] c = "X" -> 88
    [] c = "a" -> 97 [] c = "b" -> 98 [] c = "c" -> 99 [] c = "x" -> 120

IsSpace(c) == c = " "

\* str.upper() on one character.
UpperChar(c) ==
  CASE c = "a" -> "A" [] c = "b" -> "B" [] c = "c" -> "C" [] c = "x" -> "X"
    [] OTHER -> c

\* str.upper()
upper(s) == [i \in 1..Len(s) |-> UpperChar(s[i])]

\* Python's "sub in s" on strings.
contains(s, sub) ==
  \E i \in 0..(Len(s) - Len(sub)) : SubSeq(s, i + 1, i + Len(sub)) = sub

\* A substring test where the prefix test belongs.
startswith_Contains(s, prefix) == contains(s, prefix)

\* str.startswith(prefix)
startswith(s, prefix) ==
  /\ Len(prefix) <= Len(s)
  /\ SubSeq(s, 1, Len(prefix)) = prefix

\* Python's s1 < s2 on strings: lexicographic by code point.
RECURSIVE StrLess(_, _)
StrLess(a, b) ==
  IF b = <<>> THEN FALSE
  ELSE IF a = <<>> THEN TRUE
  ELSE IF Ord(a[1]) # Ord(b[1]) THEN Ord(a[1]) < Ord(b[1])
  ELSE StrLess(Tail(a), Tail(b))

\* str.strip(): leading and trailing whitespace removed.
RECURSIVE lstrip(_)
lstrip(s) == IF s # <<>> /\ IsSpace(s[1]) THEN lstrip(Tail(s)) ELSE s

RECURSIVE rstrip(_)
rstrip(s) ==
  IF s # <<>> /\ IsSpace(s[Len(s)]) THEN rstrip(SubSeq(s, 1, Len(s) - 1)) ELSE s

strip(s) == rstrip(lstrip(s))

\* Length of the leading run of non-whitespace characters.
RECURSIVE TokenLen(_)
TokenLen(s) == IF s = <<>> \/ IsSpace(s[1]) THEN 0 ELSE 1 + TokenLen(Tail(s))

\* str.split() without arguments: the whitespace-delimited tokens.
RECURSIVE split(_)
split(s) ==
  LET t == lstrip(s)
      n == TokenLen(t)
  IN IF t = <<>> THEN <<>>
     ELSE <<SubSeq(t, 1, n)>> \o split(SubSeq(t, n + 1, Len(t)))

RECURSIVE DigitsValue(_)
DigitsValue(s) ==
  IF s = <<>> THEN 0
  ELSE 10 * DigitsValue(SubSeq(s, 1, Len(s) - 1)) + DigitVal(s[Len(s)])

AllDigits(s) == s # <<>> /\ \A i \in 1..Len(s) : s[i] \in Digits

\* int(str): surrounding whitespace is ignored, one optional sign, then
\* decimal digits; anything else raises ValueError (ok = FALSE).
int(s) ==
  LET t == strip(s)
      signed == t # <<>> /\ t[1] \in {"+", "-"}
      body == IF signed THEN Tail(t) ELSE t
  IN IF AllDigits(body)
     THEN [ok |-> TRUE,
           value |-> IF signed /\ t[1] = "-" THEN 0 - DigitsValue(body)
                     ELSE DigitsValue(body)]
     ELSE [ok |-> FALSE, value |-> 0]

IsLeap(y) == (y % 4 = 0 /\ y % 100 # 0) \/ y % 400 = 0

DaysInMonth(y, m) ==
  IF m = 2 THEN (IF IsLeap(y) THEN 29 ELSE 28)
  ELSE IF m \in {4, 6, 9, 11} THEN 30 ELSE 31

\* The month directive %m: 1[0-2] | 0[1-9] | [1-9]
MonthField(s) ==
  /\ AllDigits(s)
  /\ Len(s) \in {1, 2}
  /\ DigitsValue(s) \in 1..12

\* The day directive %d: 3[01] | [12]\d | 0[1-9] | [1-9] | " "[1-9]
DayField(s) ==
  \/ /\ AllDigits(s)
     /\ Len(s) \in {1, 2}
     /\ DigitsValue(s) \in 1..31
  \/ /\ Len(s) = 2
     /\ s[1] = " "
     /\ s[2] \in Digits \ {"0"}

\* datetime.strptime(s, '%Y-%m-%d') returns (TRUE) or raises ValueError
\* (FALSE): four digits, '-', a month, '-', a day, nothing left over, and
\* the three numbers form a date of the calendar (year >= 1).
strptime(s) ==
  /\ Len(s) >= 8
  /\ AllDigits(SubSeq(s, 1, 4))
  /\ s[5] = "-"
  /\ \E k \in 7..8 :
       /\ k < Len(s)
       /\ s[k] = "-"
       /\ MonthField(SubSeq(s, 6, k - 1))
       /\ DayField(SubSeq(s, k + 1, Len(s)))
       /\ DigitsValue(SubSeq(s, 1, 4)) >= 1
       /\ DigitsValue(lstrip(SubSeq(s, k + 1, Len(s))))
            <= DaysInMonth(DigitsValue(SubSeq(s, 1, 4)),
                           DigitsValue(SubSeq(s, 6, k - 1)))

----------------------------------------------------------------------------
\* Optional values: an absent form field or query argument, Python's None.

None == [present |-> FALSE]
Some(s) == [present |-> TRUE, value |-> s]

\* request.form.get(name, default) / request.args.get(name, default)
get(field, default) == IF field.present THEN field.value ELSE default

----------------------------------------------------------------------------
\* The reference catalog (app/utils/tickers.py): TICKERS is the ordered list
\* of entries, TICKER_DICT the exact lookup from symbol to display name.

Entry(sym, nm) == [symbol |-> sym, name |-> nm]

\* The entries a catalog is built from: unique upper-case symbols.
EntryPool ==
  { Entry(<<"A">>, <<"x">>),
    Entry(<<"B">>, <<"A">>),
    Entry(<<"A", "B">>, <<"x">>),
    Entry(<<"B", "A">>, <<"c">>),
    Entry(<<"A", "A">>, <<"c">>),
    Entry(<<"A", "B", "A">>, <<"x">>),
    Entry(<<"B", "B">>, <<"a", "b">>) }

\* The catalogs of at most n entries: ordered, symbols unique.
Catalogs(n) ==
  { c \in UNION { [1..k -> EntryPool] : k \in 0..n } :
      \A i, j \in DOMAIN c : i # j => c[i].symbol # c[j].symbol }

Symbols == { TICKERS[i].symbol : i \in DOMAIN TICKERS }

TICKER_DICT ==
  [ s \in Symbols |->
      TICKERS[CHOOSE i \in DOMAIN TICKERS : TICKERS[i].symbol = s].name ]

----------------------------------------------------------------------------
\* GET /search_ticker

SearchResult(sym, nm) == [symbol |-> sym, name |-> nm, source |-> "predefined"]

\* The containment tests written the wrong way round.
IsPartialMatch_Reversed(query, ticker) ==
  /\ \/ contains(query, upper(ticker.symbol))
     \/ contains(query, upper(ticker.name))
  /\ ticker.symbol # query

\* The filter of the partial-match comprehension.
IsPartialMatch(query, ticker) ==
  /\ \/ contains(upper(ticker.symbol), query)
     \/ contains(upper(ticker.name), query)
  /\ ticker.symbol # query

\* The key without the symbol length.
SortKey_NoLength(x, query) ==
  [notExact |-> x.symbol # query, length |-> 0, symbol |-> x.symbol]

\* The sort key: a tuple (symbol != query, len(symbol), symbol).
SortKey(x, query) ==
  [notExact |-> x.symbol # query, length |-> Len(x.symbol), symbol |-> x.symbol]

\* Python's tuple comparison k1 < k2 (False < True).
KeyLess(k1, k2) ==
  IF k1.notExact # k2.notExact THEN k2.notExact
  ELSE IF k1.length # k2.length THEN k1.length < k2.length
  ELSE StrLess(k1.symbol, k2.symbol)

\* x put into the sorted list after every element whose key is not greater.
RECURSIVE Insert(_, _, _)
Insert(x, sorted, query) ==
  IF sorted = <<>> THEN <<x>>
  ELSE IF KeyLess(SortKey(x, query), SortKey(sorted[1], query))
       THEN <<x>> \o sorted
       ELSE <<sorted[1]>> \o Insert(x, Tail(sorted), query)

\* list.sort(key=...): a stable sort.
RECURSIVE SortResults(_, _)
SortResults(results, query) ==
  IF results = <<>> THEN <<>>
  ELSE Insert(results[Len(results)],
              SortResults(SubSeq(results, 1, Len(results) - 1), query),
              query)

\* s[:n]
Take(s, n) == SubSeq(s, 1, Min(n, Len(s)))

ExactMatch(query) ==
  IF query \in DOMAIN TICKER_DICT
  THEN <<SearchResult(query, TICKER_DICT[query])>>
  ELSE <<>>

PartialMatches(query) ==
  LET hits == SelectSeq(TICKERS, LAMBDA t : IsPartialMatch(query, t))
  IN [i \in 1..Len(hits) |-> SearchResult(hits[i].symbol, hits[i].name)]

\* The list jsonify receives, for the raw query argument q.
SearchTicker(q) ==
  LET query == upper(get(q, <<>>))
  IN IF query = <<>> THEN <<>>
     ELSE LET exact == ExactMatch(query)
              search_results ==
                IF Len(exact) < MaxResults
                THEN exact \o Take(PartialMatches(query), MaxResults - Len(exact))
                ELSE exact
          IN Take(SortResults(search_results, query), MaxResults)

SearchLog(q) ==
  LET query == upper(get(q, <<>>))
  IN IF query = <<>> THEN <<>>
     ELSE <<"Searching for ticker">>
          \o (IF ExactMatch(query) # <<>> THEN <<"Found exact match">> ELSE <<>>)
          \o <<"Found partial matches">>

----------------------------------------------------------------------------
\* POST /analyze

MsgMissingSymbol == "Ticker symbol is required"
MsgInvalidDate == "Invalid date format. Please use YYYY-MM-DD format"
MsgInvalidLookback == "Invalid lookback days value"
MsgInvalidCrossover == "Invalid crossover days value"
MsgAnalysisFailed == "Analysis failed: "

\* request.form.get('ticker', '').split()
TickerTokens(form) == split(get(form.ticker, <<>>))

\* The lookup returning the mapping's value, the display name.
resolve_DisplayName(ticker_input) ==
  IF ticker_input \in DOMAIN TICKER_DICT THEN TICKER_DICT[ticker_input]
  ELSE LET matching_tickers ==
             SelectSeq(TICKERS, LAMBDA t : startswith(t.symbol, ticker_input))
       IN IF matching_tickers # <<>> THEN matching_tickers[1].symbol
          ELSE ticker_input

\* The region-specific ticker lookup.
resolve(ticker_input) ==
  IF ticker_input \in DOMAIN TICKER_DICT THEN ticker_input
  ELSE LET matching_tickers ==
             SelectSeq(TICKERS, LAMBDA t : startswith(t.symbol, ticker_input))
       IN IF matching_tickers # <<>> THEN matching_tickers[1].symbol
          ELSE ticker_input

\* The end-date block: ok = FALSE when it raises.
EndDateStage(form) ==
  IF form.end_date.present /\ form.end_date.value # <<>>
  THEN [ok |-> strptime(form.end_date.value), end_date |-> form.end_date]
  ELSE [ok |-> TRUE, end_date |-> None]

\* The range test without its upper limit.
LookbackInRange_NoUpper(n) == ~(n < LookbackMin)

LookbackInRange(n) == ~(n < LookbackMin \/ n > LookbackMax)

\* The lookback block: ok = FALSE when it raises.
LookbackStage(form) ==
  LET parsed == IF form.lookback_days.present THEN int(form.lookback_days.value)
                ELSE [ok |-> TRUE, value |-> LookbackDefault]
  IN [ok |-> parsed.ok /\ LookbackInRange(parsed.value), value |-> parsed.value]

\* The range test with both limits excluded.
CrossoverInRange_Exclusive(n) == ~(n <= CrossoverMin \/ n >= CrossoverMax)

CrossoverInRange(n) == ~(n < CrossoverMin \/ n > CrossoverMax)

\* The crossover block: ok = FALSE when it raises.
CrossoverStage(form) ==
  LET parsed == IF form.crossover_days.present THEN int(form.crossover_days.value)
                ELSE [ok |-> TRUE, value |-> CrossoverDefault]
  IN [ok |-> parsed.ok /\ CrossoverInRange(parsed.value), value |-> parsed.value]

NoCall == [made |-> FALSE]

\* The outer except block: the error document with status 500.
ErrorPage(ticker_input, message, lines) ==
  [response |-> [status |-> StatusError, doc |-> "error",
                 symbol |-> ticker_input, message |-> message],
   call |-> NoCall,
   log |-> lines \o <<"Error analyzing">>]

\* What the orchestrator call and fig.to_html can do.
OrchestratorOutcomes ==
  { [raises |-> FALSE],
    [raises |-> TRUE, detail |-> "No data found"],
    [raises |-> TRUE, detail |-> "Invalid lookback days value"] }

\* The whole handler, for the posted form and the orchestrator's outcome:
\* the response, the orchestrator call made (if any) and the lines logged.
Analyze(form, orch) ==
  LET tokens == TickerTokens(form)
  IN IF tokens = <<>>
     THEN \* split()[0] raises IndexError before ticker_input is bound; the
          \* except block then reads ticker_input and its UnboundLocalError
          \* leaves the handler: the framework answers, not the handler.
          [response |-> [status |-> StatusError, doc |-> "unhandled"],
           call |-> NoCall,
           log |-> <<>>]
     ELSE
     LET ticker_input == upper(tokens[1])
         log1 == <<"Analyzing ticker">>
     IN IF ticker_input = <<>>
        THEN ErrorPage(ticker_input, <<MsgMissingSymbol>>, log1)
        ELSE
        LET ticker == resolve(ticker_input)
            log2 == log1 \o (IF ticker_input \in DOMAIN TICKER_DICT
                             THEN <<"Using predefined ticker">>
                             ELSE <<"Using matched ticker">>)
            date == EndDateStage(form)
        IN IF ~date.ok
           THEN ErrorPage(ticker_input, <<MsgInvalidDate>>, log2)
           ELSE
           LET log3 == log2 \o (IF date.end_date.present
                                THEN <<"Using end date">>
                                ELSE <<"Using current date">>)
               lookback == LookbackStage(form)
           IN IF ~lookback.ok
              THEN ErrorPage(ticker_input, <<MsgInvalidLookback>>, log3)
              ELSE
              LET log4 == log3 \o <<"Using lookback days">>
                  crossover == CrossoverStage(form)
              IN IF ~crossover.ok
                 THEN ErrorPage(ticker_input, <<MsgInvalidCrossover>>, log4)
                 ELSE
                 LET log5 == log4 \o <<"Using crossover days",
                                       "Starting technical analysis...">>
                     made == [made |-> TRUE,
                              symbol |-> ticker,
                              end_date |-> date.end_date,
                              lookback_days |-> lookback.value,
                              crossover_days |-> crossover.value]
                 IN IF orch.raises
                    THEN [ErrorPage(ticker_input,
                                    <<MsgAnalysisFailed, orch.detail>>,
                                    log5 \o <<"Analysis failed">>)
                            EXCEPT !.call = made]
                    ELSE [response |-> [status |-> 200, doc |-> "chart"],
                          call |-> made,
                          log |-> log5 \o <<"Analysis completed successfully">>]

----------------------------------------------------------------------------
\* Requests.

NoRequest == [route |-> "none"]
NoResponse == [status |-> 0]

S29 == <<"2", "9">>
S30 == <<"3", "0">>
S365 == <<"3", "6", "5">>
S366 == <<"3", "6", "6">>
S1825 == <<"1", "8", "2", "5">>
S1826 == <<"1", "8", "2", "6">>
Sabc == <<"a", "b", "c">>

TickerFields ==
  { None, Some(<<>>), Some(<<" ">>), Some(<<"a">>), Some(<<"b", " ", "a">>),
    Some(<<"x">>) }

EndDateFields ==
  { None, Some(<<>>),
    Some(<<"2", "0", "2", "4", "-", "0", "2", "-", "2", "9">>),
    Some(<<"2", "0", "2", "3", "-", "0", "2", "-", "2", "9">>),
    Some(<<"2", "0", "2", "4", "-", "1", "3", "-", "0", "1">>) }

LookbackFields ==
  { None, Some(S29), Some(S30), Some(S1825), Some(S1826), Some(Sabc) }

CrossoverFields ==
  { None, Some(S29), Some(S30), Some(S365), Some(S366), Some(Sabc) }

Forms ==
  [ ticker : TickerFields, end_date : EndDateFields,
    lookback_days : LookbackFields, crossover_days : CrossoverFields ]

Queries ==
  { None, Some(<<>>), Some(<<"a">>), Some(<<"A">>), Some(<<"b">>),
    Some(<<"a", "b">>), Some(<<"B", "A">>), Some(<<"x">>), Some(<<"c">>),
    Some(<<" ", "a">>) }

Idle == request = NoRequest /\ response = NoResponse

\* A client posts the analysis form.
PostAnalyze ==
  /\ Idle
  /\ \E form \in Forms : request' = [route |-> "analyze", form |-> form]
  /\ UNCHANGED <<TICKERS, response, call, log>>

\* A client asks for ticker suggestions.
GetSearchTicker ==
  /\ Idle
  /\ \E q \in Queries : request' = [route |-> "search_ticker", query |-> q]
  /\ UNCHANGED <<TICKERS, response, call, log>>

\* A client asks for the start page.
GetIndex ==
  /\ Idle
  /\ request' = [route |-> "index"]
  /\ UNCHANGED <<TICKERS, response, call, log>>

Pending(route) == request.route = route /\ response = NoResponse

index ==
  /\ Pending("index")
  /\ response' = [status |-> 200, doc |-> "index"]
  /\ UNCHANGED <<TICKERS, request, call, log>>

search_ticker ==
  /\ Pending("search_ticker")
  /\ response' = [status |-> 200, doc |-> "json",
                  results |-> SearchTicker(request.query)]
  /\ log' = SearchLog(request.query)
  /\ UNCHANGED <<TICKERS, request, call>>

analyze ==
  /\ Pending("analyze")
  /\ \E orch \in OrchestratorOutcomes :
       LET out == Analyze(request.form, orch)
       IN /\ response' = out.response
          /\ call' = out.call
          /\ log' = out.log
  /\ UNCHANGED <<TICKERS, request>>

\* The response reaches the client; the request is over.
Deliver ==
  /\ response # NoResponse
  /\ request' = NoRequest
  /\ response' = NoResponse
  /\ call' = NoCall
  /\ log' = <<>>
  /\ UNCHANGED TICKERS

InitRequest ==
  /\ request = NoRequest
  /\ response = NoResponse
  /\ call = NoCall
  /\ log = <<>>

Init == TICKERS \in Catalogs(MaxCatalog) /\ InitRequest

Next ==
  \/ PostAnalyze
  \/ GetSearchTicker
  \/ GetIndex
  \/ index
  \/ search_ticker
  \/ analyze
  \/ Deliver

Spec == Init /\ [][Next]_vars

InitSearch == TICKERS \in Catalogs(MaxSearchCatalog) /\ InitRequest

NextSearch ==
  \/ GetSearchTicker
  \/ search_ticker
  \/ Deliver

SpecSearch == InitSearch /\ [][NextSearch]_vars

----------------------------------------------------------------------------
\* Vocabulary of the properties.

AnalyzeAnswered == request.route = "analyze" /\ response # NoResponse
SearchAnswered == request.route = "search_ticker" /\ response # NoResponse

\* The ticker field is absent, empty or only whitespace.
BlankTicker(form) ==
  \/ ~form.ticker.present
  \/ \A i \in 1..Len(form.ticker.value) : form.ticker.value[i] = " "

\* The number a field's text denotes, for the texts the forms use; -1 for
\* a text that is no number.
Denoted(text) ==
  CASE text = S29 -> 29 [] text = S30 -> 30 [] text = S365 -> 365
    [] text = S366 -> 366 [] text = S1825 -> 1825 [] text = S1826 -> 1826
    [] OTHER -> 0 - 1

Denotes(text, n) == n >= 0 /\ Denoted(text) = n

\* The field is absent, or an integer of the closed range lo..hi.
FieldAccepted(field, lo, hi) ==
  \/ ~field.present
  \/ (lo <= Denoted(field.value) /\ Denoted(field.value) <= hi)

BadDate(form) ==
  /\ form.end_date.present
  /\ form.end_date.value # <<>>
  /\ ~strptime(form.end_date.value)

BadLookback(form) == ~FieldAccepted(form.lookback_days, 30, 1825)
BadCrossover(form) == ~FieldAccepted(form.crossover_days, 30, 365)

Reports(message) == response.doc = "error" /\ response.message = <<message>>

\* C1: the orchestrator is invoked only with a validated request: lookback in
\* 30..1825, crossover in 30..365, end_date None (also for an empty field) or
\* a string that parsed; a request with a failing stage never reaches it.
C1_OrchestratorOnlyValidated ==
  /\ call.made =>
       /\ request.route = "analyze"
       /\ call.lookback_days \in 30..1825
       /\ call.crossover_days \in 30..365
       /\ \/ ~call.end_date.present
          \/ /\ call.end_date = request.form.end_date
             /\ call.end_date.value # <<>>
             /\ strptime(call.end_date.value)
       /\ (~request.form.end_date.present => ~call.end_date.present)
       /\ (request.form.end_date = Some(<<>>) => ~call.end_date.present)
  /\ AnalyzeAnswered =>
       LET form == request.form
       IN (BlankTicker(form) \/ BadDate(form) \/ BadLookback(form)
             \/ BadCrossover(form)) => ~call.made

C1_Witness ==
  /\ AnalyzeAnswered
  /\ call.made
  /\ call.end_date.present
  /\ call.lookback_days = 1825
  /\ call.crossover_days = 30
  /\ response.doc = "chart"

\* C2: a blank ticker field is answered with the MissingSymbol failure and
\* the orchestrator is not invoked.
C2_BlankTickerMissingSymbol ==
  (AnalyzeAnswered /\ BlankTicker(request.form)) =>
    /\ Reports(MsgMissingSymbol)
    /\ ~call.made

\* C3: every POST /analyze ends either with status 200 and the chart, or with
\* status 500 and the error document naming the requested symbol.
C3_ChartOrErrorDocument ==
  AnalyzeAnswered =>
    \/ /\ response.status = 200
       /\ response.doc = "chart"
       /\ call.made
    \/ /\ response.status = 500
       /\ response.doc = "error"
       /\ response.symbol = upper(TickerTokens(request.form)[1])

\* C4: with a valid symbol and date, lookback is rejected with InvalidLookback
\* exactly when it is not an integer of 30..1825 (absent means 365), and then
\* crossover with InvalidCrossover exactly when it is not an integer of
\* 30..365 (absent means 180).
C4_BoundaryInclusivity ==
  (AnalyzeAnswered /\ ~BlankTicker(request.form) /\ ~BadDate(request.form)) =>
    LET form == request.form
    IN /\ Reports(MsgInvalidLookback) <=> BadLookback(form)
       /\ form.lookback_days \in {Some(S29), Some(S1826), Some(Sabc)}
            => Reports(MsgInvalidLookback)
       /\ form.lookback_days \in {None, Some(S30), Some(S1825)}
            => ~Reports(MsgInvalidLookback)
       /\ ~BadLookback(form) =>
            /\ Reports(MsgInvalidCrossover) <=> BadCrossover(form)
            /\ form.crossover_days \in {Some(S29), Some(S366), Some(Sabc)}
                 => Reports(MsgInvalidCrossover)
            /\ form.crossover_days \in {None, Some(S30), Some(S365)}
                 => call.made
       /\ call.made =>
            /\ \/ ~form.lookback_days.present /\ call.lookback_days = 365
               \/ /\ form.lookback_days.present
                  /\ Denotes(form.lookback_days.value, call.lookback_days)
            /\ \/ ~form.crossover_days.present /\ call.crossover_days = 180
               \/ /\ form.crossover_days.present
                  /\ Denotes(form.crossover_days.value, call.crossover_days)

C4_Witness ==
  /\ AnalyzeAnswered
  /\ request.form.lookback_days = Some(S1825)
  /\ request.form.crossover_days = Some(S366)
  /\ Reports(MsgInvalidCrossover)

\* The failure of the earliest failing stage, "" when every stage passes.
FirstFailure(form) ==
  IF BlankTicker(form) THEN MsgMissingSymbol
  ELSE IF BadDate(form) THEN MsgInvalidDate
  ELSE IF BadLookback(form) THEN MsgInvalidLookback
  ELSE IF BadCrossover(form) THEN MsgInvalidCrossover
  ELSE ""

\* C5: the failure reported is the one of the earliest failing stage in the
\* order symbol, date, lookback, crossover; the orchestrator's failure is
\* reported only when all four pass; the five messages are pairwise distinct.
C5_FirstFailureReported ==
  AnalyzeAnswered =>
    /\ FirstFailure(request.form) # "" =>
         /\ Reports(FirstFailure(request.form))
         /\ ~call.made
    /\ (response.doc = "error" /\ FirstFailure(request.form) = "") =>
         /\ Len(response.message) = 2
         /\ response.message[1] = MsgAnalysisFailed
    /\ Cardinality({MsgMissingSymbol, MsgInvalidDate, MsgInvalidLookback,
                    MsgInvalidCrossover, MsgAnalysisFailed}) = 5

\* Case-insensitive substring.
ContainsCI(s, sub) ==
  \E i \in 0..(Len(s) - Len(sub)) :
    \A k \in 1..Len(sub) : UpperChar(s[i + k]) = UpperChar(sub[k])

QueryText == IF request.query.present THEN request.query.value ELSE <<>>

\* C6: search answers with at most 5 results and no error; every result has
\* the upper-cased query as its symbol or contains the query, ignoring case,
\* in its symbol or name; an empty or missing query gives no result.
C6_SearchAtMostFiveMatching ==
  SearchAnswered =>
    /\ response.status = 200
    /\ response.doc = "json"
    /\ Len(response.results) <= 5
    /\ \A i \in 1..Len(response.results) :
         LET r == response.results[i]
         IN \/ r.symbol = upper(QueryText)
            \/ ContainsCI(r.symbol, QueryText)
            \/ ContainsCI(r.name, QueryText)
    /\ QueryText = <<>> => response.results = <<>>

C6_Witness ==
  /\ SearchAnswered
  /\ Len(response.results) = 5
  /\ \E i \in 1..5 :
       /\ ~ContainsCI(response.results[i].symbol, QueryText)
       /\ ContainsCI(response.results[i].name, QueryText)

IsExact(r) == r.symbol = upper(QueryText)

\* C7: the exact match, if any, is first; among the others a shorter symbol
\* comes first and symbols of equal length ascend lexicographically.
C7_SearchOrdered ==
  SearchAnswered =>
    LET rs == response.results
    IN /\ \A i \in 1..Len(rs) : IsExact(rs[i]) => i = 1
       /\ (QueryText # <<>> /\ upper(QueryText) \in Symbols)
            => (rs # <<>> /\ IsExact(rs[1]))
       /\ \A i, j \in 1..Len(rs) :
            (i < j /\ ~IsExact(rs[i])) =>
              \/ Len(rs[i].symbol) < Len(rs[j].symbol)
              \/ /\ Len(rs[i].symbol) = Len(rs[j].symbol)
                 /\ StrLess(rs[i].symbol, rs[j].symbol)

C7_Witness ==
  /\ SearchAnswered
  /\ Len(response.results) = 5
  /\ IsExact(response.results[1])
  /\ Len(response.results[2].symbol) = 2
  /\ Len(response.results[3].symbol) = 2
  /\ Len(response.results[5].symbol) = 3
  /\ \E i, j \in DOMAIN TICKERS :
       /\ i < j
       /\ TICKERS[i].symbol = response.results[5].symbol
       /\ TICKERS[j].symbol = response.results[1].symbol

\* The entry matches the query: exactly, or as a substring ignoring case.
Matches(e) ==
  \/ e.symbol = upper(QueryText)
  \/ ContainsCI(e.symbol, QueryText)
  \/ ContainsCI(e.name, QueryText)

\* e ranks strictly before r under (exact match, symbol length, symbol).
RanksBefore(e, r) ==
  IF IsExact(e) # IsExact(r) THEN IsExact(e)
  ELSE IF Len(e.symbol) # Len(r.symbol) THEN Len(e.symbol) < Len(r.symbol)
  ELSE StrLess(e.symbol, r.symbol)

\* C8: no matching catalog entry left out of the result ranks strictly
\* before a returned entry.
C8_SearchTopFive ==
  (SearchAnswered /\ QueryText # <<>>) =>
    LET rs == response.results
        returned == { rs[i].symbol : i \in 1..Len(rs) }
    IN \A k \in DOMAIN TICKERS :
         (Matches(TICKERS[k]) /\ TICKERS[k].symbol \notin returned) =>
           \A i \in 1..Len(rs) : ~RanksBefore(TICKERS[k], rs[i])

\* s begins with t.
HasPrefix(s, t) == Len(t) <= Len(s) /\ \A k \in 1..Len(t) : s[k] = t[k]

\* The resolution the specification states, for the upper-cased token t.
Resolved(t) ==
  IF t \in DOMAIN TICKER_DICT THEN t
  ELSE IF \E i \in DOMAIN TICKERS : HasPrefix(TICKERS[i].symbol, t)
       THEN LET first == CHOOSE i \in DOMAIN TICKERS :
                           /\ HasPrefix(TICKERS[i].symbol, t)
                           /\ \A j \in 1..(i - 1) : ~HasPrefix(TICKERS[j].symbol, t)
            IN TICKERS[first].symbol
       ELSE t

\* C9: the symbol passed to the orchestrator is the token itself when it is a
\* key of the exact lookup, else the first catalog symbol that starts with
\* it, else the token itself.
C9_ResolvedSymbolPassed ==
  call.made =>
    call.symbol = Resolved(upper(TickerTokens(request.form)[1]))

C9_Witness ==
  /\ call.made
  /\ call.symbol # upper(TickerTokens(request.form)[1])
  /\ Len(TICKERS) = 2
  /\ call.symbol = TICKERS[2].symbol
  /\ contains(TICKERS[1].symbol, upper(TickerTokens(request.form)[1]))

\* The inputs resolution is tried on: short upper-case texts.
ResolveInputs ==
  LET chars == {"A", "B", "X"}
  IN UNION { [1..n -> chars] : n \in 0..2 } \cup Symbols

\* C10: resolving twice equals resolving once, for every input and for the
\* symbol the orchestrator was called with; a known symbol resolves to itself.
C10_ResolveIdempotent ==
  /\ call.made => resolve(call.symbol) = call.symbol
  /\ Idle =>
       /\ \A x \in ResolveInputs : resolve(resolve(x)) = resolve(x)
       /\ \A s \in Symbols : resolve(s) = s

C10_Witness ==
  /\ call.made
  /\ call.symbol # upper(TickerTokens(request.form)[1])
  /\ call.symbol \in Symbols

====
